---------------------------- MODULE Spec2Model ----------------------------
(***************************************************************************)
(* A model of filter.py: the nine fast sentence filters, the two-pass      *)
(* filter cascade of main(), its rejection statistics and the chunked      *)
(* output writer.                                                          *)
(*                                                                         *)
(* A Python str is a sequence of characters.  A character is a string: a   *)
(* printable ASCII character and the tab, newline, form feed and carriage  *)
(* return are written as themselves ("a", " ", "\t", "\n", "\f", "\r"),    *)
(* any other character by its code point ("U+00C5" is the letter A with    *)
(* ring above, "U+000B" the vertical tab).                                 *)
(***************************************************************************)
EXTENDS Naturals, Integers, Sequences, FiniteSets

VARIABLES
    lines,              \* infile.readlines(): the input lines, each ending in "\n"
    chunk_size,         \* args.chunk_size
    single_sentences,   \* args.single_sentences
    pc,                 \* position in main(): "fast", "slow", "write", "done"
    line_idx,           \* number of input lines the first loop has consumed
    filter_fail_count,  \* filter name -> number of sentences it rejected
    survivors,          \* sentences that passed every fast filter
    total_lines,        \* records counted by the first loop
    surv_idx,           \* number of survivors the second loop has consumed
    final_pass,         \* sentences the spaCy filter accepted
    nlp_calls,          \* history of the calls of nlp(): sentence and verdict
    total_final,        \* len(final_pass), set before writing
    chunk_count,        \* number of output files written
    i,                  \* loop variable of range(0, total_final, CHUNK_SIZE)
    files,              \* files[k]: the rows written to output_<k>.tsv
    printed,            \* the statistics reports printed, each a record of its numbers
    fname,              \* filter harness: name of the filter called on its own
    farg,               \* filter harness: its argument
    fres                \* filter harness: "accept", "reject" or "error"

vars == <<lines, chunk_size, single_sentences, pc, line_idx, filter_fail_count,
          survivors, total_lines, surv_idx, final_pass, nlp_calls, total_final,
          chunk_count, i, files, printed, fname, farg, fres>>

mainVars == <<lines, chunk_size, single_sentences, pc, line_idx, filter_fail_count,
              survivors, total_lines, surv_idx, final_pass, nlp_calls, total_final,
              chunk_count, i, files, printed>>

harnessVars == <<fname, farg, fres>>

----------------------------------------------------------------------------
(* Bounds of the model.                                                    *)

\* Longest input file whose lines are drawn from the varied pool.
MaxLines == 1
\* Longest input file whose lines are drawn from the small pool.
MaxLongLines == 5
\* Largest --chunk_size tried.
MaxChunk == 2
\* Most words of a generated many-word sentence.
MaxWords == 16
\* Longest exhaustively generated argument of a filter called on its own.
MaxArgLen == 3

----------------------------------------------------------------------------
(* Characters: str.isupper, str.isdigit, str.isspace on one character.     *)

AsciiUpper ==
    {"A", "B", "C", "D", "E", "F", "G", "H", "I", "J", "K", "L", "M",
     "N", "O", "P", "Q", "R", "S", "T", "U", "V", "W", "X", "Y", "Z"}

AsciiLower ==
    {"a", "b", "c", "d", "e", "f", "g", "h", "i", "j", "k", "l", "m",
     "n", "o", "p", "q", "r", "s", "t", "u", "v", "w", "x", "y", "z"}

\* AE, O with stroke, A with ring: the capitals the pattern allows.
NorwegianUpper == {"U+00C6", "U+00D8", "U+00C5"}

NorwegianLower == {"U+00E6", "U+00F8", "U+00E5"}

\* Every other character c with c.isupper() (Unicode 14.0): 1922 characters.
OtherUpper ==
    {"U+00C0", "U+00C1", "U+00C2", "U+00C3", "U+00C4", "U+00C7", "U+00C8",
     "U+00C9", "U+00CA", "U+00CB", "U+00CC", "U+00CD", "U+00CE", "U+00CF",
     "U+00D0", "U+00D1", "U+00D2", "U+00D3", "U+00D4", "U+00D5", "U+00D6",
     "U+00D9", "U+00DA", "U+00DB", "U+00DC", "U+00DD", "U+00DE", "U+0100",
     "U+0102", "U+0104", "U+0106", "U+0108", "U+010A", "U+010C", "U+010E",
     "U+0110", "U+0112", "U+0114", "U+0116", "U+0118", "U+011A", "U+011C",
     "U+011E", "U+0120", "U+0122", "U+0124", "U+0126", "U+0128", "U+012A",
     "U+012C", "U+012E", "U+0130", "U+0132", "U+0134", "U+0136", "U+0139",
     "U+013B", "U+013D", "U+013F", "U+0141", "U+0143", "U+0145", "U+0147",
     "U+014A", "U+014C", "U+014E", "U+0150", "U+0152", "U+0154", "U+0156",
     "U+0158", "U+015A", "U+015C", "U+015E", "U+0160", "U+0162", "U+0164",
     "U+0166", "U+0168", "U+016A", "U+016C", "U+016E", "U+0170", "U+0172",
     "U+0174", "U+0176", "U+0178", "U+0179", "U+017B", "U+017D", "U+0181",
     "U+0182", "U+0184", "U+0186", "U+0187", "U+0189", "U+018A", "U+018B",
     "U+018E", "U+018F", "U+0190", "U+0191", "U+0193", "U+0194", "U+0196",
     "U+0197", "U+0198", "U+019C", "U+019D", "U+019F", "U+01A0", "U+01A2",
     "U+01A4", "U+01A6", "U+01A7", "U+01A9", "U+01AC", "U+01AE", "U+01AF",
     "U+01B1", "U+01B2", "U+01B3", "U+01B5", "U+01B7", "U+01B8", "U+01BC",
     "U+01C4", "U+01C7", "U+01CA", "U+01CD", "U+01CF", "U+01D1", "U+01D3",
     "U+01D5", "U+01D7", "U+01D9", "U+01DB", "U+01DE", "U+01E0", "U+01E2",
     "U+01E4", "U+01E6", "U+01E8", "U+01EA", "U+01EC", "U+01EE", "U+01F1",
     "U+01F4", "U+01F6", "U+01F7", "U+01F8", "U+01FA", "U+01FC", "U+01FE",
     "U+0200", "U+0202", "U+0204", "U+0206", "U+0208", "U+020A", "U+020C",
     "U+020E", "U+0210", "U+0212", "U+0214", "U+0216", "U+0218", "U+021A",
     "U+021C", "U+021E", "U+0220", "U+0222", "U+0224", "U+0226", "U+0228",
     "U+022A", "U+022C", "U+022E", "U+0230", "U+0232", "U+023A", "U+023B",
     "U+023D", "U+023E", "U+0241", "U+0243", "U+0244", "U+0245", "U+0246",
     "U+0248", "U+024A", "U+024C", "U+024E", "U+0370", "U+0372", "U+0376",
     "U+037F", "U+0386", "U+0388", "U+0389", "U+038A", "U+038C", "U+038E",
     "U+038F", "U+0391", "U+0392", "U+0393", "U+0394", "U+0395", "U+0396",
     "U+0397", "U+0398", "U+0399", "U+039A", "U+039B", "U+039C", "U+039D",
     "U+039E", "U+039F", "U+03A0", "U+03A1", "U+03A3", "U+03A4", "U+03A5",
     "U+03A6", "U+03A7", "U+03A8", "U+03A9", "U+03AA", "U+03AB", "U+03CF",
     "U+03D2", "U+03D3", "U+03D4", "U+03D8", "U+03DA", "U+03DC", "U+03DE",
     "U+03E0", "U+03E2", "U+03E4", "U+03E6", "U+03E8", "U+03EA", "U+03EC",
     "U+03EE", "U+03F4", "U+03F7", "U+03F9", "U+03FA", "U+03FD", "U+03FE",
     "U+03FF", "U+0400", "U+0401", "U+0402", "U+0403", "U+0404", "U+0405",
     "U+0406", "U+0407", "U+0408", "U+0409", "U+040A", "U+040B", "U+040C",
     "U+040D", "U+040E", "U+040F", "U+0410", "U+0411", "U+0412", "U+0413",
     "U+0414", "U+0415", "U+0416", "U+0417", "U+0418", "U+0419", "U+041A",
     "U+041B", "U+041C", "U+041D", "U+041E", "U+041F", "U+0420", "U+0421",
     "U+0422", "U+0423", "U+0424", "U+0425", "U+0426", "U+0427", "U+0428",
     "U+0429", "U+042A", "U+042B", "U+042C", "U+042D", "U+042E", "U+042F",
     "U+0460", "U+0462", "U+0464", "U+0466", "U+0468", "U+046A", "U+046C",
     "U+046E", "U+0470", "U+0472", "U+0474", "U+0476", "U+0478", "U+047A",
     "U+047C", "U+047E", "U+0480", "U+048A", "U+048C", "U+048E", "U+0490",
     "U+0492", "U+0494", "U+0496", "U+0498", "U+049A", "U+049C", "U+049E",
     "U+04A0", "U+04A2", "U+04A4", "U+04A6", "U+04A8", "U+04AA", "U+04AC",
     "U+04AE", "U+04B0", "U+04B2", "U+04B4", "U+04B6", "U+04B8", "U+04BA",
     "U+04BC", "U+04BE", "U+04C0", "U+04C1", "U+04C3", "U+04C5", "U+04C7",
     "U+04C9", "U+04CB", "U+04CD", "U+04D0", "U+04D2", "U+04D4", "U+04D6",
     "U+04D8", "U+04DA", "U+04DC", "U+04DE", "U+04E0", "U+04E2", "U+04E4",
     "U+04E6", "U+04E8", "U+04EA", "U+04EC", "U+04EE", "U+04F0", "U+04F2",
     "U+04F4", "U+04F6", "U+04F8", "U+04FA", "U+04FC", "U+04FE", "U+0500",
     "U+0502", "U+0504", "U+0506", "U+0508", "U+050A", "U+050C", "U+050E",
     "U+0510", "U+0512", "U+0514", "U+0516", "U+0518", "U+051A", "U+051C",
     "U+051E", "U+0520", "U+0522", "U+0524", "U+0526", "U+0528", "U+052A",
     "U+052C", "U+052E", "U+0531", "U+0532", "U+0533", "U+0534", "U+0535",
     "U+0536", "U+0537", "U+0538", "U+0539", "U+053A", "U+053B", "U+053C",
     "U+053D", "U+053E", "U+053F", "U+0540", "U+0541", "U+0542", "U+0543",
     "U+0544", "U+0545", "U+0546", "U+0547", "U+0548", "U+0549", "U+054A",
     "U+054B", "U+054C", "U+054D", "U+054E", "U+054F", "U+0550", "U+0551",
     "U+0552", "U+0553", "U+0554", "U+0555", "U+0556", "U+10A0", "U+10A1",
     "U+10A2", "U+10A3", "U+10A4", "U+10A5", "U+10A6", "U+10A7", "U+10A8",
     "U+10A9", "U+10AA", "U+10AB", "U+10AC", "U+10AD", "U+10AE", "U+10AF",
     "U+10B0", "U+10B1", "U+10B2", "U+10B3", "U+10B4", "U+10B5", "U+10B6",
     "U+10B7", "U+10B8", "U+10B9", "U+10BA", "U+10BB", "U+10BC", "U+10BD",
     "U+10BE", "U+10BF", "U+10C0", "U+10C1", "U+10C2", "U+10C3", "U+10C4",
     "U+10C5", "U+10C7", "U+10CD", "U+13A0", "U+13A1", "U+13A2", "U+13A3",
     "U+13A4", "U+13A5", "U+13A6", "U+13A7", "U+13A8", "U+13A9", "U+13AA",
     "U+13AB", "U+13AC", "U+13AD", "U+13AE", "U+13AF", "U+13B0", "U+13B1",
     "U+13B2", "U+13B3", "U+13B4", "U+13B5", "U+13B6", "U+13B7", "U+13B8",
     "U+13B9", "U+13BA", "U+13BB", "U+13BC", "U+13BD", "U+13BE", "U+13BF",
     "U+13C0", "U+13C1", "U+13C2", "U+13C3", "U+13C4", "U+13C5", "U+13C6",
     "U+13C7", "U+13C8", "U+13C9", "U+13CA", "U+13CB", "U+13CC", "U+13CD",
     "U+13CE", "U+13CF", "U+13D0", "U+13D1", "U+13D2", "U+13D3", "U+13D4",
     "U+13D5", "U+13D6", "U+13D7", "U+13D8", "U+13D9", "U+13DA", "U+13DB",
     "U+13DC", "U+13DD", "U+13DE", "U+13DF", "U+13E0", "U+13E1", "U+13E2",
     "U+13E3", "U+13E4", "U+13E5", "U+13E6", "U+13E7", "U+13E8", "U+13E9",
     "U+13EA", "U+13EB", "U+13EC", "U+13ED", "U+13EE", "U+13EF", "U+13F0",
     "U+13F1", "U+13F2", "U+13F3", "U+13F4", "U+13F5", "U+1C90", "U+1C91",
     "U+1C92", "U+1C93", "U+1C94", "U+1C95", "U+1C96", "U+1C97", "U+1C98",
     "U+1C99", "U+1C9A", "U+1C9B", "U+1C9C", "U+1C9D", "U+1C9E", "U+1C9F",
     "U+1CA0", "U+1CA1", "U+1CA2", "U+1CA3", "U+1CA4", "U+1CA5", "U+1CA6",
     "U+1CA7", "U+1CA8", "U+1CA9", "U+1CAA", "U+1CAB", "U+1CAC", "U+1CAD",
     "U+1CAE", "U+1CAF", "U+1CB0", "U+1CB1", "U+1CB2", "U+1CB3", "U+1CB4",
     "U+1CB5", "U+1CB6", "U+1CB7", "U+1CB8", "U+1CB9", "U+1CBA", "U+1CBD",
     "U+1CBE", "U+1CBF", "U+1E00", "U+1E02", "U+1E04", "U+1E06", "U+1E08",
     "U+1E0A", "U+1E0C", "U+1E0E", "U+1E10", "U+1E12", "U+1E14", "U+1E16",
     "U+1E18", "U+1E1A", "U+1E1C", "U+1E1E", "U+1E20", "U+1E22", "U+1E24",
     "U+1E26", "U+1E28", "U+1E2A", "U+1E2C", "U+1E2E", "U+1E30", "U+1E32",
     "U+1E34", "U+1E36", "U+1E38", "U+1E3A", "U+1E3C", "U+1E3E", "U+1E40",
     "U+1E42", "U+1E44", "U+1E46", "U+1E48", "U+1E4A", "U+1E4C", "U+1E4E",
     "U+1E50", "U+1E52", "U+1E54", "U+1E56", "U+1E58", "U+1E5A", "U+1E5C",
     "U+1E5E", "U+1E60", "U+1E62", "U+1E64", "U+1E66", "U+1E68", "U+1E6A",
     "U+1E6C", "U+1E6E", "U+1E70", "U+1E72", "U+1E74", "U+1E76", "U+1E78",
     "U+1E7A", "U+1E7C", "U+1E7E", "U+1E80", "U+1E82", "U+1E84", "U+1E86",
     "U+1E88", "U+1E8A", "U+1E8C", "U+1E8E", "U+1E90", "U+1E92", "U+1E94",
     "U+1E9E", "U+1EA0", "U+1EA2", "U+1EA4", "U+1EA6", "U+1EA8", "U+1EAA",
     "U+1EAC", "U+1EAE", "U+1EB0", "U+1EB2", "U+1EB4", "U+1EB6", "U+1EB8",
     "U+1EBA", "U+1EBC", "U+1EBE", "U+1EC0", "U+1EC2", "U+1EC4", "U+1EC6",
     "U+1EC8", "U+1ECA", "U+1ECC", "U+1ECE", "U+1ED0", "U+1ED2", "U+1ED4",
     "U+1ED6", "U+1ED8", "U+1EDA", "U+1EDC", "U+1EDE", "U+1EE0", "U+1EE2",
     "U+1EE4", "U+1EE6", "U+1EE8", "U+1EEA", "U+1EEC", "U+1EEE", "U+1EF0",
     "U+1EF2", "U+1EF4", "U+1EF6", "U+1EF8", "U+1EFA", "U+1EFC", "U+1EFE",
     "U+1F08", "U+1F09", "U+1F0A", "U+1F0B", "U+1F0C", "U+1F0D", "U+1F0E",
     "U+1F0F", "U+1F18", "U+1F19", "U+1F1A", "U+1F1B", "U+1F1C", "U+1F1D",
     "U+1F28", "U+1F29", "U+1F2A", "U+1F2B", "U+1F2C", "U+1F2D", "U+1F2E",
     "U+1F2F", "U+1F38", "U+1F39", "U+1F3A", "U+1F3B", "U+1F3C", "U+1F3D",
     "U+1F3E", "U+1F3F", "U+1F48", "U+1F49", "U+1F4A", "U+1F4B", "U+1F4C",
     "U+1F4D", "U+1F59", "U+1F5B", "U+1F5D", "U+1F5F", "U+1F68", "U+1F69",
     "U+1F6A", "U+1F6B", "U+1F6C", "U+1F6D", "U+1F6E", "U+1F6F", "U+1FB8",
     "U+1FB9", "U+1FBA", "U+1FBB", "U+1FC8", "U+1FC9", "U+1FCA", "U+1FCB",
     "U+1FD8", "U+1FD9", "U+1FDA", "U+1FDB", "U+1FE8", "U+1FE9", "U+1FEA",
     "U+1FEB", "U+1FEC", "U+1FF8", "U+1FF9", "U+1FFA", "U+1FFB", "U+2102",
     "U+2107", "U+210B", "U+210C", "U+210D", "U+2110", "U+2111", "U+2112",
     "U+2115", "U+2119", "U+211A", "U+211B", "U+211C", "U+211D", "U+2124",
     "U+2126", "U+2128", "U+212A", "U+212B", "U+212C", "U+212D", "U+2130",
     "U+2131", "U+2132", "U+2133", "U+213E", "U+213F", "U+2145", "U+2160",
     "U+2161", "U+2162", "U+2163", "U+2164", "U+2165", "U+2166", "U+2167",
     "U+2168", "U+2169", "U+216A", "U+216B", "U+216C", "U+216D", "U+216E",
     "U+216F", "U+2183", "U+24B6", "U+24B7", "U+24B8", "U+24B9", "U+24BA",
     "U+24BB", "U+24BC", "U+24BD", "U+24BE", "U+24BF", "U+24C0", "U+24C1",
     "U+24C2", "U+24C3", "U+24C4", "U+24C5", "U+24C6", "U+24C7", "U+24C8",
     "U+24C9", "U+24CA", "U+24CB", "U+24CC", "U+24CD", "U+24CE", "U+24CF",
     "U+2C00", "U+2C01", "U+2C02", "U+2C03", "U+2C04", "U+2C05", "U+2C06",
     "U+2C07", "U+2C08", "U+2C09", "U+2C0A", "U+2C0B", "U+2C0C", "U+2C0D",
     "U+2C0E", "U+2C0F", "U+2C10", "U+2C11", "U+2C12", "U+2C13", "U+2C14",
     "U+2C15", "U+2C16", "U+2C17", "U+2C18", "U+2C19", "U+2C1A", "U+2C1B",
     "U+2C1C", "U+2C1D", "U+2C1E", "U+2C1F", "U+2C20", "U+2C21", "U+2C22",
     "U+2C23", "U+2C24", "U+2C25", "U+2C26", "U+2C27", "U+2C28", "U+2C29",
     "U+2C2A", "U+2C2B", "U+2C2C", "U+2C2D", "U+2C2E", "U+2C2F", "U+2C60",
     "U+2C62", "U+2C63", "U+2C64", "U+2C67", "U+2C69", "U+2C6B", "U+2C6D",
     "U+2C6E", "U+2C6F", "U+2C70", "U+2C72", "U+2C75", "U+2C7E", "U+2C7F",
     "U+2C80", "U+2C82", "U+2C84", "U+2C86", "U+2C88", "U+2C8A", "U+2C8C",
     "U+2C8E", "U+2C90", "U+2C92", "U+2C94", "U+2C96", "U+2C98", "U+2C9A",
     "U+2C9C", "U+2C9E", "U+2CA0", "U+2CA2", "U+2CA4", "U+2CA6", "U+2CA8",
     "U+2CAA", "U+2CAC", "U+2CAE", "U+2CB0", "U+2CB2", "U+2CB4", "U+2CB6",
     "U+2CB8", "U+2CBA", "U+2CBC", "U+2CBE", "U+2CC0", "U+2CC2", "U+2CC4",
     "U+2CC6", "U+2CC8", "U+2CCA", "U+2CCC", "U+2CCE", "U+2CD0", "U+2CD2",
     "U+2CD4", "U+2CD6", "U+2CD8", "U+2CDA", "U+2CDC", "U+2CDE", "U+2CE0",
     "U+2CE2", "U+2CEB", "U+2CED", "U+2CF2", "U+A640", "U+A642", "U+A644",
     "U+A646", "U+A648", "U+A64A", "U+A64C", "U+A64E", "U+A650", "U+A652",
     "U+A654", "U+A656", "U+A658", "U+A65A", "U+A65C", "U+A65E", "U+A660",
     "U+A662", "U+A664", "U+A666", "U+A668", "U+A66A", "U+A66C", "U+A680",
     "U+A682", "U+A684", "U+A686", "U+A688", "U+A68A", "U+A68C", "U+A68E",
     "U+A690", "U+A692", "U+A694", "U+A696", "U+A698", "U+A69A", "U+A722",
     "U+A724", "U+A726", "U+A728", "U+A72A", "U+A72C", "U+A72E", "U+A732",
     "U+A734", "U+A736", "U+A738", "U+A73A", "U+A73C", "U+A73E", "U+A740",
     "U+A742", "U+A744", "U+A746", "U+A748", "U+A74A", "U+A74C", "U+A74E",
     "U+A750", "U+A752", "U+A754", "U+A756", "U+A758", "U+A75A", "U+A75C",
     "U+A75E", "U+A760", "U+A762", "U+A764", "U+A766", "U+A768", "U+A76A",
     "U+A76C", "U+A76E", "U+A779", "U+A77B", "U+A77D", "U+A77E", "U+A780",
     "U+A782", "U+A784", "U+A786", "U+A78B", "U+A78D", "U+A790", "U+A792",
     "U+A796", "U+A798", "U+A79A", "U+A79C", "U+A79E", "U+A7A0", "U+A7A2",
     "U+A7A4", "U+A7A6", "U+A7A8", "U+A7AA", "U+A7AB", "U+A7AC", "U+A7AD",
     "U+A7AE", "U+A7B0", "U+A7B1", "U+A7B2", "U+A7B3", "U+A7B4", "U+A7B6",
     "U+A7B8", "U+A7BA", "U+A7BC", "U+A7BE", "U+A7C0", "U+A7C2", "U+A7C4",
     "U+A7C5", "U+A7C6", "U+A7C7", "U+A7C9", "U+A7D0", "U+A7D6", "U+A7D8",
     "U+A7F5", "U+FF21", "U+FF22", "U+FF23", "U+FF24", "U+FF25", "U+FF26",
     "U+FF27", "U+FF28", "U+FF29", "U+FF2A", "U+FF2B", "U+FF2C", "U+FF2D",
     "U+FF2E", "U+FF2F", "U+FF30", "U+FF31", "U+FF32", "U+FF33", "U+FF34",
     "U+FF35", "U+FF36", "U+FF37", "U+FF38", "U+FF39", "U+FF3A", "U+10400",
     "U+10401", "U+10402", "U+10403", "U+10404", "U+10405", "U+10406",
     "U+10407", "U+10408", "U+10409", "U+1040A", "U+1040B", "U+1040C",
     "U+1040D", "U+1040E", "U+1040F", "U+10410", "U+10411", "U+10412",
     "U+10413", "U+10414", "U+10415", "U+10416", "U+10417", "U+10418",
     "U+10419", "U+1041A", "U+1041B", "U+1041C", "U+1041D", "U+1041E",
     "U+1041F", "U+10420", "U+10421", "U+10422", "U+10423", "U+10424",
     "U+10425", "U+10426", "U+10427", "U+104B0", "U+104B1", "U+104B2",
     "U+104B3", "U+104B4", "U+104B5", "U+104B6", "U+104B7", "U+104B8",
     "U+104B9", "U+104BA", "U+104BB", "U+104BC", "U+104BD", "U+104BE",
     "U+104BF", "U+104C0", "U+104C1", "U+104C2", "U+104C3", "U+104C4",
     "U+104C5", "U+104C6", "U+104C7", "U+104C8", "U+104C9", "U+104CA",
     "U+104CB", "U+104CC", "U+104CD", "U+104CE", "U+104CF", "U+104D0",
     "U+104D1", "U+104D2", "U+104D3", "U+10570", "U+10571", "U+10572",
     "U+10573", "U+10574", "U+10575", "U+10576", "U+10577", "U+10578",
     "U+10579", "U+1057A", "U+1057C", "U+1057D", "U+1057E", "U+1057F",
     "U+10580", "U+10581", "U+10582", "U+10583", "U+10584", "U+10585",
     "U+10586", "U+10587", "U+10588", "U+10589", "U+1058A", "U+1058C",
     "U+1058D", "U+1058E", "U+1058F", "U+10590", "U+10591", "U+10592",
     "U+10594", "U+10595", "U+10C80", "U+10C81", "U+10C82", "U+10C83",
     "U+10C84", "U+10C85", "U+10C86", "U+10C87", "U+10C88", "U+10C89",
     "U+10C8A", "U+10C8B", "U+10C8C", "U+10C8D", "U+10C8E", "U+10C8F",
     "U+10C90", "U+10C91", "U+10C92", "U+10C93", "U+10C94", "U+10C95",
     "U+10C96", "U+10C97", "U+10C98", "U+10C99", "U+10C9A", "U+10C9B",
     "U+10C9C", "U+10C9D", "U+10C9E", "U+10C9F", "U+10CA0", "U+10CA1",
     "U+10CA2", "U+10CA3", "U+10CA4", "U+10CA5", "U+10CA6", "U+10CA7",
     "U+10CA8", "U+10CA9", "U+10CAA", "U+10CAB", "U+10CAC", "U+10CAD",
     "U+10CAE", "U+10CAF", "U+10CB0", "U+10CB1", "U+10CB2", "U+118A0",
     "U+118A1", "U+118A2", "U+118A3", "U+118A4", "U+118A5", "U+118A6",
     "U+118A7", "U+118A8", "U+118A9", "U+118AA", "U+118AB", "U+118AC",
     "U+118AD", "U+118AE", "U+118AF", "U+118B0", "U+118B1", "U+118B2",
     "U+118B3", "U+118B4", "U+118B5", "U+118B6", "U+118B7", "U+118B8",
     "U+118B9", "U+118BA", "U+118BB", "U+118BC", "U+118BD", "U+118BE",
     "U+118BF", "U+16E40", "U+16E41", "U+16E42", "U+16E43", "U+16E44",
     "U+16E45", "U+16E46", "U+16E47", "U+16E48", "U+16E49", "U+16E4A",
     "U+16E4B", "U+16E4C", "U+16E4D", "U+16E4E", "U+16E4F", "U+16E50",
     "U+16E51", "U+16E52", "U+16E53", "U+16E54", "U+16E55", "U+16E56",
     "U+16E57", "U+16E58", "U+16E59", "U+16E5A", "U+16E5B", "U+16E5C",
     "U+16E5D", "U+16E5E", "U+16E5F", "U+1D400", "U+1D401", "U+1D402",
     "U+1D403", "U+1D404", "U+1D405", "U+1D406", "U+1D407", "U+1D408",
     "U+1D409", "U+1D40A", "U+1D40B", "U+1D40C", "U+1D40D", "U+1D40E",
     "U+1D40F", "U+1D410", "U+1D411", "U+1D412", "U+1D413", "U+1D414",
     "U+1D415", "U+1D416", "U+1D417", "U+1D418", "U+1D419", "U+1D434",
     "U+1D435", "U+1D436", "U+1D437", "U+1D438", "U+1D439", "U+1D43A",
     "U+1D43B", "U+1D43C", "U+1D43D", "U+1D43E", "U+1D43F", "U+1D440",
     "U+1D441", "U+1D442", "U+1D443", "U+1D444", "U+1D445", "U+1D446",
     "U+1D447", "U+1D448", "U+1D449", "U+1D44A", "U+1D44B", "U+1D44C",
     "U+1D44D", "U+1D468", "U+1D469", "U+1D46A", "U+1D46B", "U+1D46C",
     "U+1D46D", "U+1D46E", "U+1D46F", "U+1D470", "U+1D471", "U+1D472",
     "U+1D473", "U+1D474", "U+1D475", "U+1D476", "U+1D477", "U+1D478",
     "U+1D479", "U+1D47A", "U+1D47B", "U+1D47C", "U+1D47D", "U+1D47E",
     "U+1D47F", "U+1D480", "U+1D481", "U+1D49C", "U+1D49E", "U+1D49F",
     "U+1D4A2", "U+1D4A5", "U+1D4A6", "U+1D4A9", "U+1D4AA", "U+1D4AB",
     "U+1D4AC", "U+1D4AE", "U+1D4AF", "U+1D4B0", "U+1D4B1", "U+1D4B2",
     "U+1D4B3", "U+1D4B4", "U+1D4B5", "U+1D4D0", "U+1D4D1", "U+1D4D2",
     "U+1D4D3", "U+1D4D4", "U+1D4D5", "U+1D4D6", "U+1D4D7", "U+1D4D8",
     "U+1D4D9", "U+1D4DA", "U+1D4DB", "U+1D4DC", "U+1D4DD", "U+1D4DE",
     "U+1D4DF", "U+1D4E0", "U+1D4E1", "U+1D4E2", "U+1D4E3", "U+1D4E4",
     "U+1D4E5", "U+1D4E6", "U+1D4E7", "U+1D4E8", "U+1D4E9", "U+1D504",
     "U+1D505", "U+1D507", "U+1D508", "U+1D509", "U+1D50A", "U+1D50D",
     "U+1D50E", "U+1D50F", "U+1D510", "U+1D511", "U+1D512", "U+1D513",
     "U+1D514", "U+1D516", "U+1D517", "U+1D518", "U+1D519", "U+1D51A",
     "U+1D51B", "U+1D51C", "U+1D538", "U+1D539", "U+1D53B", "U+1D53C",
     "U+1D53D", "U+1D53E", "U+1D540", "U+1D541", "U+1D542", "U+1D543",
     "U+1D544", "U+1D546", "U+1D54A", "U+1D54B", "U+1D54C", "U+1D54D",
     "U+1D54E", "U+1D54F", "U+1D550", "U+1D56C", "U+1D56D", "U+1D56E",
     "U+1D56F", "U+1D570", "U+1D571", "U+1D572", "U+1D573", "U+1D574",
     "U+1D575", "U+1D576", "U+1D577", "U+1D578", "U+1D579", "U+1D57A",
     "U+1D57B", "U+1D57C", "U+1D57D", "U+1D57E", "U+1D57F", "U+1D580",
     "U+1D581", "U+1D582", "U+1D583", "U+1D584", "U+1D585", "U+1D5A0",
     "U+1D5A1", "U+1D5A2", "U+1D5A3", "U+1D5A4", "U+1D5A5", "U+1D5A6",
     "U+1D5A7", "U+1D5A8", "U+1D5A9", "U+1D5AA", "U+1D5AB", "U+1D5AC",
     "U+1D5AD", "U+1D5AE", "U+1D5AF", "U+1D5B0", "U+1D5B1", "U+1D5B2",
     "U+1D5B3", "U+1D5B4", "U+1D5B5", "U+1D5B6", "U+1D5B7", "U+1D5B8",
     "U+1D5B9", "U+1D5D4", "U+1D5D5", "U+1D5D6", "U+1D5D7", "U+1D5D8",
     "U+1D5D9", "U+1D5DA", "U+1D5DB", "U+1D5DC", "U+1D5DD", "U+1D5DE",
     "U+1D5DF", "U+1D5E0", "U+1D5E1", "U+1D5E2", "U+1D5E3", "U+1D5E4",
     "U+1D5E5", "U+1D5E6", "U+1D5E7", "U+1D5E8", "U+1D5E9", "U+1D5EA",
     "U+1D5EB", "U+1D5EC", "U+1D5ED", "U+1D608", "U+1D609", "U+1D60A",
     "U+1D60B", "U+1D60C", "U+1D60D", "U+1D60E", "U+1D60F", "U+1D610",
     "U+1D611", "U+1D612", "U+1D613", "U+1D614", "U+1D615", "U+1D616",
     "U+1D617", "U+1D618", "U+1D619", "U+1D61A", "U+1D61B", "U+1D61C",
     "U+1D61D", "U+1D61E", "U+1D61F", "U+1D620", "U+1D621", "U+1D63C",
     "U+1D63D", "U+1D63E", "U+1D63F", "U+1D640", "U+1D641", "U+1D642",
     "U+1D643", "U+1D644", "U+1D645", "U+1D646", "U+1D647", "U+1D648",
     "U+1D649", "U+1D64A", "U+1D64B", "U+1D64C", "U+1D64D", "U+1D64E",
     "U+1D64F", "U+1D650", "U+1D651", "U+1D652", "U+1D653", "U+1D654",
     "U+1D655", "U+1D670", "U+1D671", "U+1D672", "U+1D673", "U+1D674",
     "U+1D675", "U+1D676", "U+1D677", "U+1D678", "U+1D679", "U+1D67A",
     "U+1D67B", "U+1D67C", "U+1D67D", "U+1D67E", "U+1D67F", "U+1D680",
     "U+1D681", "U+1D682", "U+1D683", "U+1D684", "U+1D685", "U+1D686",
     "U+1D687", "U+1D688", "U+1D689", "U+1D6A8", "U+1D6A9", "U+1D6AA",
     "U+1D6AB", "U+1D6AC", "U+1D6AD", "U+1D6AE", "U+1D6AF", "U+1D6B0",
     "U+1D6B1", "U+1D6B2", "U+1D6B3", "U+1D6B4", "U+1D6B5", "U+1D6B6",
     "U+1D6B7", "U+1D6B8", "U+1D6B9", "U+1D6BA", "U+1D6BB", "U+1D6BC",
     "U+1D6BD", "U+1D6BE", "U+1D6BF", "U+1D6C0", "U+1D6E2", "U+1D6E3",
     "U+1D6E4", "U+1D6E5", "U+1D6E6", "U+1D6E7", "U+1D6E8", "U+1D6E9",
     "U+1D6EA", "U+1D6EB", "U+1D6EC", "U+1D6ED", "U+1D6EE", "U+1D6EF",
     "U+1D6F0", "U+1D6F1", "U+1D6F2", "U+1D6F3", "U+1D6F4", "U+1D6F5",
     "U+1D6F6", "U+1D6F7", "U+1D6F8", "U+1D6F9", "U+1D6FA", "U+1D71C",
     "U+1D71D", "U+1D71E", "U+1D71F", "U+1D720", "U+1D721", "U+1D722",
     "U+1D723", "U+1D724", "U+1D725", "U+1D726", "U+1D727", "U+1D728",
     "U+1D729", "U+1D72A", "U+1D72B", "U+1D72C", "U+1D72D", "U+1D72E",
     "U+1D72F", "U+1D730", "U+1D731", "U+1D732", "U+1D733", "U+1D734",
     "U+1D756", "U+1D757", "U+1D758", "U+1D759", "U+1D75A", "U+1D75B",
     "U+1D75C", "U+1D75D", "U+1D75E", "U+1D75F", "U+1D760", "U+1D761",
     "U+1D762", "U+1D763", "U+1D764", "U+1D765", "U+1D766", "U+1D767",
     "U+1D768", "U+1D769", "U+1D76A", "U+1D76B", "U+1D76C", "U+1D76D",
     "U+1D76E", "U+1D790", "U+1D791", "U+1D792", "U+1D793", "U+1D794",
     "U+1D795", "U+1D796", "U+1D797", "U+1D798", "U+1D799", "U+1D79A",
     "U+1D79B", "U+1D79C", "U+1D79D", "U+1D79E", "U+1D79F", "U+1D7A0",
     "U+1D7A1", "U+1D7A2", "U+1D7A3", "U+1D7A4", "U+1D7A5", "U+1D7A6",
     "U+1D7A7", "U+1D7A8", "U+1D7CA", "U+1E900", "U+1E901", "U+1E902",
     "U+1E903", "U+1E904", "U+1E905", "U+1E906", "U+1E907", "U+1E908",
     "U+1E909", "U+1E90A", "U+1E90B", "U+1E90C", "U+1E90D", "U+1E90E",
     "U+1E90F", "U+1E910", "U+1E911", "U+1E912", "U+1E913", "U+1E914",
     "U+1E915", "U+1E916", "U+1E917", "U+1E918", "U+1E919", "U+1E91A",
     "U+1E91B", "U+1E91C", "U+1E91D", "U+1E91E", "U+1E91F", "U+1E920",
     "U+1E921", "U+1F130", "U+1F131", "U+1F132", "U+1F133", "U+1F134",
     "U+1F135", "U+1F136", "U+1F137", "U+1F138", "U+1F139", "U+1F13A",
     "U+1F13B", "U+1F13C", "U+1F13D", "U+1F13E", "U+1F13F", "U+1F140",
     "U+1F141", "U+1F142", "U+1F143", "U+1F144", "U+1F145", "U+1F146",
     "U+1F147", "U+1F148", "U+1F149", "U+1F150", "U+1F151", "U+1F152",
     "U+1F153", "U+1F154", "U+1F155", "U+1F156", "U+1F157", "U+1F158",
     "U+1F159", "U+1F15A", "U+1F15B", "U+1F15C", "U+1F15D", "U+1F15E",
     "U+1F15F", "U+1F160", "U+1F161", "U+1F162", "U+1F163", "U+1F164",
     "U+1F165", "U+1F166", "U+1F167", "U+1F168", "U+1F169", "U+1F170",
     "U+1F171", "U+1F172", "U+1F173", "U+1F174", "U+1F175", "U+1F176",
     "U+1F177", "U+1F178", "U+1F179", "U+1F17A", "U+1F17B", "U+1F17C",
     "U+1F17D", "U+1F17E", "U+1F17F", "U+1F180", "U+1F181", "U+1F182",
     "U+1F183", "U+1F184", "U+1F185", "U+1F186", "U+1F187", "U+1F188",
     "U+1F189"}

\* Every character c with c.isdigit() (Unicode 14.0): 788 characters.
Digits ==
    {"0", "1", "2", "3", "4", "5", "6", "7", "8", "9", "U+00B2", "U+00B3",
     "U+00B9", "U+0660", "U+0661", "U+0662", "U+0663", "U+0664", "U+0665",
     "U+0666", "U+0667", "U+0668", "U+0669", "U+06F0", "U+06F1", "U+06F2",
     "U+06F3", "U+06F4", "U+06F5", "U+06F6", "U+06F7", "U+06F8", "U+06F9",
     "U+07C0", "U+07C1", "U+07C2", "U+07C3", "U+07C4", "U+07C5", "U+07C6",
     "U+07C7", "U+07C8", "U+07C9", "U+0966", "U+0967", "U+0968", "U+0969",
     "U+096A", "U+096B", "U+096C", "U+096D", "U+096E", "U+096F", "U+09E6",
     "U+09E7", "U+09E8", "U+09E9", "U+09EA", "U+09EB", "U+09EC", "U+09ED",
     "U+09EE", "U+09EF", "U+0A66", "U+0A67", "U+0A68", "U+0A69", "U+0A6A",
     "U+0A6B", "U+0A6C", "U+0A6D", "U+0A6E", "U+0A6F", "U+0AE6", "U+0AE7",
     "U+0AE8", "U+0AE9", "U+0AEA", "U+0AEB", "U+0AEC", "U+0AED", "U+0AEE",
     "U+0AEF", "U+0B66", "U+0B67", "U+0B68", "U+0B69", "U+0B6A", "U+0B6B",
     "U+0B6C", "U+0B6D", "U+0B6E", "U+0B6F", "U+0BE6", "U+0BE7", "U+0BE8",
     "U+0BE9", "U+0BEA", "U+0BEB", "U+0BEC", "U+0BED", "U+0BEE", "U+0BEF",
     "U+0C66", "U+0C67", "U+0C68", "U+0C69", "U+0C6A", "U+0C6B", "U+0C6C",
     "U+0C6D", "U+0C6E", "U+0C6F", "U+0CE6", "U+0CE7", "U+0CE8", "U+0CE9",
     "U+0CEA", "U+0CEB", "U+0CEC", "U+0CED", "U+0CEE", "U+0CEF", "U+0D66",
     "U+0D67", "U+0D68", "U+0D69", "U+0D6A", "U+0D6B", "U+0D6C", "U+0D6D",
     "U+0D6E", "U+0D6F", "U+0DE6", "U+0DE7", "U+0DE8", "U+0DE9", "U+0DEA",
     "U+0DEB", "U+0DEC", "U+0DED", "U+0DEE", "U+0DEF", "U+0E50", "U+0E51",
     "U+0E52", "U+0E53", "U+0E54", "U+0E55", "U+0E56", "U+0E57", "U+0E58",
     "U+0E59", "U+0ED0", "U+0ED1", "U+0ED2", "U+0ED3", "U+0ED4", "U+0ED5",
     "U+0ED6", "U+0ED7", "U+0ED8", "U+0ED9", "U+0F20", "U+0F21", "U+0F22",
     "U+0F23", "U+0F24", "U+0F25", "U+0F26", "U+0F27", "U+0F28", "U+0F29",
     "U+1040", "U+1041", "U+1042", "U+1043", "U+1044", "U+1045", "U+1046",
     "U+1047", "U+1048", "U+1049", "U+1090", "U+1091", "U+1092", "U+1093",
     "U+1094", "U+1095", "U+1096", "U+1097", "U+1098", "U+1099", "U+1369",
     "U+136A", "U+136B", "U+136C", "U+136D", "U+136E", "U+136F", "U+1370",
     "U+1371", "U+17E0", "U+17E1", "U+17E2", "U+17E3", "U+17E4", "U+17E5",
     "U+17E6", "U+17E7", "U+17E8", "U+17E9", "U+1810", "U+1811", "U+1812",
     "U+1813", "U+1814", "U+1815", "U+1816", "U+1817", "U+1818", "U+1819",
     "U+1946", "U+1947", "U+1948", "U+1949", "U+194A", "U+194B", "U+194C",
     "U+194D", "U+194E", "U+194F", "U+19D0", "U+19D1", "U+19D2", "U+19D3",
     "U+19D4", "U+19D5", "U+19D6", "U+19D7", "U+19D8", "U+19D9", "U+19DA",
     "U+1A80", "U+1A81", "U+1A82", "U+1A83", "U+1A84", "U+1A85", "U+1A86",
     "U+1A87", "U+1A88", "U+1A89", "U+1A90", "U+1A91", "U+1A92", "U+1A93",
     "U+1A94", "U+1A95", "U+1A96", "U+1A97", "U+1A98", "U+1A99", "U+1B50",
     "U+1B51", "U+1B52", "U+1B53", "U+1B54", "U+1B55", "U+1B56", "U+1B57",
     "U+1B58", "U+1B59", "U+1BB0", "U+1BB1", "U+1BB2", "U+1BB3", "U+1BB4",
     "U+1BB5", "U+1BB6", "U+1BB7", "U+1BB8", "U+1BB9", "U+1C40", "U+1C41",
     "U+1C42", "U+1C43", "U+1C44", "U+1C45", "U+1C46", "U+1C47", "U+1C48",
     "U+1C49", "U+1C50", "U+1C51", "U+1C52", "U+1C53", "U+1C54", "U+1C55",
     "U+1C56", "U+1C57", "U+1C58", "U+1C59", "U+2070", "U+2074", "U+2075",
     "U+2076", "U+2077", "U+2078", "U+2079", "U+2080", "U+2081", "U+2082",
     "U+2083", "U+2084", "U+2085", "U+2086", "U+2087", "U+2088", "U+2089",
     "U+2460", "U+2461", "U+2462", "U+2463", "U+2464", "U+2465", "U+2466",
     "U+2467", "U+2468", "U+2474", "U+2475", "U+2476", "U+2477", "U+2478",
     "U+2479", "U+247A", "U+247B", "U+247C", "U+2488", "U+2489", "U+248A",
     "U+248B", "U+248C", "U+248D", "U+248E", "U+248F", "U+2490", "U+24EA",
     "U+24F5", "U+24F6", "U+24F7", "U+24F8", "U+24F9", "U+24FA", "U+24FB",
     "U+24FC", "U+24FD", "U+24FF", "U+2776", "U+2777", "U+2778", "U+2779",
     "U+277A", "U+277B", "U+277C", "U+277D", "U+277E", "U+2780", "U+2781",
     "U+2782", "U+2783", "U+2784", "U+2785", "U+2786", "U+2787", "U+2788",
     "U+278A", "U+278B", "U+278C", "U+278D", "U+278E", "U+278F", "U+2790",
     "U+2791", "U+2792", "U+A620", "U+A621", "U+A622", "U+A623", "U+A624",
     "U+A625", "U+A626", "U+A627", "U+A628", "U+A629", "U+A8D0", "U+A8D1",
     "U+A8D2", "U+A8D3", "U+A8D4", "U+A8D5", "U+A8D6", "U+A8D7", "U+A8D8",
     "U+A8D9", "U+A900", "U+A901", "U+A902", "U+A903", "U+A904", "U+A905",
     "U+A906", "U+A907", "U+A908", "U+A909", "U+A9D0", "U+A9D1", "U+A9D2",
     "U+A9D3", "U+A9D4", "U+A9D5", "U+A9D6", "U+A9D7", "U+A9D8", "U+A9D9",
     "U+A9F0", "U+A9F1", "U+A9F2", "U+A9F3", "U+A9F4", "U+A9F5", "U+A9F6",
     "U+A9F7", "U+A9F8", "U+A9F9", "U+AA50", "U+AA51", "U+AA52", "U+AA53",
     "U+AA54", "U+AA55", "U+AA56", "U+AA57", "U+AA58", "U+AA59", "U+ABF0",
     "U+ABF1", "U+ABF2", "U+ABF3", "U+ABF4", "U+ABF5", "U+ABF6", "U+ABF7",
     "U+ABF8", "U+ABF9", "U+FF10", "U+FF11", "U+FF12", "U+FF13", "U+FF14",
     "U+FF15", "U+FF16", "U+FF17", "U+FF18", "U+FF19", "U+104A0",
     "U+104A1", "U+104A2", "U+104A3", "U+104A4", "U+104A5", "U+104A6",
     "U+104A7", "U+104A8", "U+104A9", "U+10A40", "U+10A41", "U+10A42",
     "U+10A43", "U+10D30", "U+10D31", "U+10D32", "U+10D33", "U+10D34",
     "U+10D35", "U+10D36", "U+10D37", "U+10D38", "U+10D39", "U+10E60",
     "U+10E61", "U+10E62", "U+10E63", "U+10E64", "U+10E65", "U+10E66",
     "U+10E67", "U+10E68", "U+11052", "U+11053", "U+11054", "U+11055",
     "U+11056", "U+11057", "U+11058", "U+11059", "U+1105A", "U+11066",
     "U+11067", "U+11068", "U+11069", "U+1106A", "U+1106B", "U+1106C",
     "U+1106D", "U+1106E", "U+1106F", "U+110F0", "U+110F1", "U+110F2",
     "U+110F3", "U+110F4", "U+110F5", "U+110F6", "U+110F7", "U+110F8",
     "U+110F9", "U+11136", "U+11137", "U+11138", "U+11139", "U+1113A",
     "U+1113B", "U+1113C", "U+1113D", "U+1113E", "U+1113F", "U+111D0",
     "U+111D1", "U+111D2", "U+111D3", "U+111D4", "U+111D5", "U+111D6",
     "U+111D7", "U+111D8", "U+111D9", "U+112F0", "U+112F1", "U+112F2",
     "U+112F3", "U+112F4", "U+112F5", "U+112F6", "U+112F7", "U+112F8",
     "U+112F9", "U+11450", "U+11451", "U+11452", "U+11453", "U+11454",
     "U+11455", "U+11456", "U+11457", "U+11458", "U+11459", "U+114D0",
     "U+114D1", "U+114D2", "U+114D3", "U+114D4", "U+114D5", "U+114D6",
     "U+114D7", "U+114D8", "U+114D9", "U+11650", "U+11651", "U+11652",
     "U+11653", "U+11654", "U+11655", "U+11656", "U+11657", "U+11658",
     "U+11659", "U+116C0", "U+116C1", "U+116C2", "U+116C3", "U+116C4",
     "U+116C5", "U+116C6", "U+116C7", "U+116C8", "U+116C9", "U+11730",
     "U+11731", "U+11732", "U+11733", "U+11734", "U+11735", "U+11736",
     "U+11737", "U+11738", "U+11739", "U+118E0", "U+118E1", "U+118E2",
     "U+118E3", "U+118E4", "U+118E5", "U+118E6", "U+118E7", "U+118E8",
     "U+118E9", "U+11950", "U+11951", "U+11952", "U+11953", "U+11954",
     "U+11955", "U+11956", "U+11957", "U+11958", "U+11959", "U+11C50",
     "U+11C51", "U+11C52", "U+11C53", "U+11C54", "U+11C55", "U+11C56",
     "U+11C57", "U+11C58", "U+11C59", "U+11D50", "U+11D51", "U+11D52",
     "U+11D53", "U+11D54", "U+11D55", "U+11D56", "U+11D57", "U+11D58",
     "U+11D59", "U+11DA0", "U+11DA1", "U+11DA2", "U+11DA3", "U+11DA4",
     "U+11DA5", "U+11DA6", "U+11DA7", "U+11DA8", "U+11DA9", "U+16A60",
     "U+16A61", "U+16A62", "U+16A63", "U+16A64", "U+16A65", "U+16A66",
     "U+16A67", "U+16A68", "U+16A69", "U+16AC0", "U+16AC1", "U+16AC2",
     "U+16AC3", "U+16AC4", "U+16AC5", "U+16AC6", "U+16AC7", "U+16AC8",
     "U+16AC9", "U+16B50", "U+16B51", "U+16B52", "U+16B53", "U+16B54",
     "U+16B55", "U+16B56", "U+16B57", "U+16B58", "U+16B59", "U+1D7CE",
     "U+1D7CF", "U+1D7D0", "U+1D7D1", "U+1D7D2", "U+1D7D3", "U+1D7D4",
     "U+1D7D5", "U+1D7D6", "U+1D7D7", "U+1D7D8", "U+1D7D9", "U+1D7DA",
     "U+1D7DB", "U+1D7DC", "U+1D7DD", "U+1D7DE", "U+1D7DF", "U+1D7E0",
     "U+1D7E1", "U+1D7E2", "U+1D7E3", "U+1D7E4", "U+1D7E5", "U+1D7E6",
     "U+1D7E7", "U+1D7E8", "U+1D7E9", "U+1D7EA", "U+1D7EB", "U+1D7EC",
     "U+1D7ED", "U+1D7EE", "U+1D7EF", "U+1D7F0", "U+1D7F1", "U+1D7F2",
     "U+1D7F3", "U+1D7F4", "U+1D7F5", "U+1D7F6", "U+1D7F7", "U+1D7F8",
     "U+1D7F9", "U+1D7FA", "U+1D7FB", "U+1D7FC", "U+1D7FD", "U+1D7FE",
     "U+1D7FF", "U+1E140", "U+1E141", "U+1E142", "U+1E143", "U+1E144",
     "U+1E145", "U+1E146", "U+1E147", "U+1E148", "U+1E149", "U+1E2F0",
     "U+1E2F1", "U+1E2F2", "U+1E2F3", "U+1E2F4", "U+1E2F5", "U+1E2F6",
     "U+1E2F7", "U+1E2F8", "U+1E2F9", "U+1E950", "U+1E951", "U+1E952",
     "U+1E953", "U+1E954", "U+1E955", "U+1E956", "U+1E957", "U+1E958",
     "U+1E959", "U+1F100", "U+1F101", "U+1F102", "U+1F103", "U+1F104",
     "U+1F105", "U+1F106", "U+1F107", "U+1F108", "U+1F109", "U+1F10A",
     "U+1FBF0", "U+1FBF1", "U+1FBF2", "U+1FBF3", "U+1FBF4", "U+1FBF5",
     "U+1FBF6", "U+1FBF7", "U+1FBF8", "U+1FBF9"}

\* Every character c with c.isspace(): the 29 characters that str.strip and
\* str.split() remove and that \s matches in a str pattern.
Whitespace ==
    {"\t", "\n", "U+000B", "\f", "\r", "U+001C", "U+001D", "U+001E",
     "U+001F", " ", "U+0085", "U+00A0", "U+1680", "U+2000", "U+2001",
     "U+2002", "U+2003", "U+2004", "U+2005", "U+2006", "U+2007", "U+2008",
     "U+2009", "U+200A", "U+2028", "U+2029", "U+202F", "U+205F", "U+3000"}

\* , . ! ? ' (and the right single quotation mark) : ; -
AllowedPunctuation == {",", ".", "!", "?", "'", "U+2019", ":", ";", "-"}

\* Every character c with c.isupper(): 1951 characters.
Upper == AsciiUpper \cup NorwegianUpper \cup OtherUpper

isupper(c) == c \in Upper

isdigit(c) == c \in Digits

isspace(c) == c \in Whitespace

----------------------------------------------------------------------------
(* Python str methods on sequences of characters.                          *)

RECURSIVE lstrip(_)
lstrip(s) ==
    IF s = <<>> THEN <<>>
    ELSE IF isspace(Head(s)) THEN lstrip(Tail(s))
    ELSE s

RECURSIVE rstrip(_)
rstrip(s) ==
    IF s = <<>> THEN <<>>
    ELSE IF isspace(s[Len(s)]) THEN rstrip(SubSeq(s, 1, Len(s) - 1))
    ELSE s

strip(s) == rstrip(lstrip(s))

\* s.count(c) for a single character c
count(s, c) == Cardinality({k \in 1..Len(s) : s[k] = c})

\* the length of the run of non-whitespace characters s starts with
WordLen(s) ==
    IF \A k \in 1..Len(s) : ~ isspace(s[k]) THEN Len(s)
    ELSE (CHOOSE k \in 1..Len(s) : isspace(s[k]) /\ \A j \in 1..(k - 1) : ~ isspace(s[j])) - 1

\* s.split(): the maximal runs of non-whitespace characters, in order:
\* leading whitespace is skipped, the first word is read, the rest is split.
RECURSIVE split(_)
split(s) ==
    LET rest == lstrip(s)
    IN  IF rest = <<>> THEN <<>>
        ELSE <<SubSeq(rest, 1, WordLen(rest))>>
                 \o split(SubSeq(rest, WordLen(rest) + 1, Len(rest)))

\* s.split(sep) for a single character sep: empty fields are kept, so the
\* result has one more element than s has separators.  The n-th field lies
\* between the (n-1)-th and the n-th separator.
split_sep(s, sep) ==
    LET seps == {k \in 1..Len(s) : s[k] = sep}
        sep_at(n) == IF n = 0 THEN 0
                     ELSE IF n > Cardinality(seps) THEN Len(s) + 1
                     ELSE CHOOSE k \in seps : Cardinality({j \in seps : j <= k}) = n
    IN  [n \in 1..(Cardinality(seps) + 1) |-> SubSeq(s, sep_at(n - 1) + 1, sep_at(n) - 1)]

\* seq[lo : hi] for 0 <= lo, 0 <= hi (Python slice, clipped to the length)
slice(seq, lo, hi) ==
    LET top == IF hi < Len(seq) THEN hi ELSE Len(seq)
    IN  IF lo >= top THEN <<>> ELSE SubSeq(seq, lo + 1, top)

----------------------------------------------------------------------------
(* The nine fast filters.                                                  *)

\* A variant that takes the empty string for capitalised.
starts_with_capital_or(sentence) ==
    LET stripped == lstrip(sentence)
    IN  stripped = <<>> \/ isupper(stripped[1])

starts_with_capital(sentence) ==
    LET stripped == lstrip(sentence)
    IN  stripped # <<>> /\ isupper(stripped[1])

has_no_parentheses(sentence) ==
    /\ \A k \in 1..Len(sentence) : sentence[k] # "("
    /\ \A k \in 1..Len(sentence) : sentence[k] # ")"

ends_with_punctuation(sentence) ==
    LET stripped == rstrip(sentence)
    IN  stripped # <<>> /\ stripped[Len(stripped)] \in {".", "?"}

only_one_sentence(sentence) ==
    LET stripped == rstrip(sentence)
    IN  IF stripped = <<>> THEN FALSE
        ELSE LET total_punct == count(stripped, ".") + count(stripped, "?")
             IN  total_punct = 1 /\ stripped[Len(stripped)] \in {".", "?"}

has_no_numbers(sentence) ==
    ~ \E k \in 1..Len(sentence) : isdigit(sentence[k])

\* The class of the pattern ^[a-zA-Z...\s,.!?'...:;\-]*$
PatternClass ==
    AsciiLower \cup AsciiUpper \cup NorwegianLower \cup NorwegianUpper
        \cup Whitespace \cup AllowedPunctuation

no_special_characters(sentence) ==
    \A k \in 1..Len(sentence) : sentence[k] \in PatternClass

\* Words over this many characters count as 2 words.
LongWordLen == 10

RECURSIVE EffectiveSum(_)
EffectiveSum(words) ==
    IF words = <<>> THEN 0
    ELSE (IF Len(Head(words)) > LongWordLen THEN 2 ELSE 1) + EffectiveSum(Tail(words))

effective_word_count(sentence) == EffectiveSum(split(sentence))

DefaultWpm == 100
DefaultMinSec == 2
DefaultMaxSec == 7

\* A variant with a lower bound of 1 second.
reading_time_filter_min1(sentence) ==
    LET ewc == effective_word_count(sentence)
    IN  1 * DefaultWpm <= ewc * 60 /\ ewc * 60 <= DefaultMaxSec * DefaultWpm

\* A variant reading at 60 words per minute.
reading_time_filter_wpm60(sentence) ==
    LET ewc == effective_word_count(sentence)
    IN  DefaultMinSec * 60 <= ewc * 60 /\ ewc * 60 <= DefaultMaxSec * 60

\* A variant with the band of the docstring, 7 to 15 seconds.
reading_time_filter_docstring(sentence) ==
    LET ewc == effective_word_count(sentence)
    IN  7 * DefaultWpm <= ewc * 60 /\ ewc * 60 <= 15 * DefaultWpm

\* reading_time_filter(sentence) as main() calls it, with the default wpm,
\* min_sec and max_sec.  The code divides in floating point,
\* reading_time = effective_word_count / (100 / 60.0), and compares with 2
\* and 7.  The exact bounds on the word count, 10/3 and 35/3, are no whole
\* numbers, so no word count lies within a rounding error of a bound and the
\* comparison of whole numbers below decides as the floating-point one does.
\* (For other arguments the floating-point quotient can fall on the other
\* side of an exact bound; those calls are not modelled.)
reading_time_filter(sentence) ==
    LET ewc == effective_word_count(sentence)
    IN  DefaultMinSec * DefaultWpm <= ewc * 60 /\ ewc * 60 <= DefaultMaxSec * DefaultWpm

DefaultMaxWords == 14

max_word_count_filter(sentence) == Len(split(sentence)) <= DefaultMaxWords

basic_proper_noun_filter(sentence) ==
    LET words == split(sentence)
    IN  IF Len(words) > 1
        THEN ~ \E k \in 2..Len(words) : isupper(words[k][1])
        ELSE TRUE

----------------------------------------------------------------------------
(* Sample sentences and input lines the inputs are drawn from.             *)

\* 'Dette er en setning.'
s_ok ==
    <<"D", "e", "t", "t", "e", " ", "e", "r", " ", "e", "n", " ", "s", "e", "t", "n", "i", "n", "g", ".">>

\* 'Hun ser en bil?'
s_ok2 ==
    <<"H", "u", "n", " ", "s", "e", "r", " ", "e", "n", " ", "b", "i", "l", "?">>

\* 'Ærlig talt går det å se.'
s_norsk ==
    <<"U+00C6", "r", "l", "i", "g", " ", "t", "a", "l", "t", " ", "g", "U+00E5", "r", " ", "d", "e", "t", " ", "U+00E5", " ", "s", "e", ".">>

\* 'Hallo der.'
s_hallo ==
    <<"H", "a", "l", "l", "o", " ", "d", "e", "r", ".">>

\* 'Dette er Oslo.'
s_oslo ==
    <<"D", "e", "t", "t", "e", " ", "e", "r", " ", "O", "s", "l", "o", ".">>

\* 'Dette er byen Oslo.'
s_oslo4 ==
    <<"D", "e", "t", "t", "e", " ", "e", "r", " ", "b", "y", "e", "n", " ", "O", "s", "l", "o", ".">>

\* 'Hei (test).'
s_paren ==
    <<"H", "e", "i", " ", "(", "t", "e", "s", "t", ")", ".">>

\* 'dette er en setning.'
s_lower ==
    <<"d", "e", "t", "t", "e", " ", "e", "r", " ", "e", "n", " ", "s", "e", "t", "n", "i", "n", "g", ".">>

\* 'Dette er en setning'
s_nopunct ==
    <<"D", "e", "t", "t", "e", " ", "e", "r", " ", "e", "n", " ", "s", "e", "t", "n", "i", "n", "g">>

\* 'Dette er. En setning.'
s_two ==
    <<"D", "e", "t", "t", "e", " ", "e", "r", ".", " ", "E", "n", " ", "s", "e", "t", "n", "i", "n", "g", ".">>

\* 'Dette er 2 setninger.'
s_num ==
    <<"D", "e", "t", "t", "e", " ", "e", "r", " ", "2", " ", "s", "e", "t", "n", "i", "n", "g", "e", "r", ".">>

\* 'Dette er en #setning.'
s_special ==
    <<"D", "e", "t", "t", "e", " ", "e", "r", " ", "e", "n", " ", "#", "s", "e", "t", "n", "i", "n", "g", ".">>

\* 'École er en skole.'
s_accent ==
    <<"U+00C9", "c", "o", "l", "e", " ", "e", "r", " ", "e", "n", " ", "s", "k", "o", "l", "e", ".">>

\* '(dette er 2 Ting'
s_many ==
    <<"(", "d", "e", "t", "t", "e", " ", "e", "r", " ", "2", " ", "T", "i", "n", "g">>

\* 'Dette (er) 2 Ting'
s_many2 ==
    <<"D", "e", "t", "t", "e", " ", "(", "e", "r", ")", " ", "2", " ", "T", "i", "n", "g">>

\* 'Aaaaaaaaaa a a.'
s_ten ==
    <<"A", "a", "a", "a", "a", "a", "a", "a", "a", "a", " ", "a", " ", "a", ".">>

\* 'Aaaaaaaaaaa a a.'
s_eleven ==
    <<"A", "a", "a", "a", "a", "a", "a", "a", "a", "a", "a", " ", "a", " ", "a", ".">>

\* the line ''
l_blank ==
    <<>>

\* the line ' '
l_space ==
    <<" ">>

\* the line 'abc'
l_onecol ==
    <<"a", "b", "c">>

\* the line '\t'
l_tab ==
    <<"\t">>

\* the line '1\t'
l_emptysent ==
    <<"1", "\t">>

\* the line '\tDette er en setning.'
l_emptyid ==
    <<"\t", "D", "e", "t", "t", "e", " ", "e", "r", " ", "e", "n", " ", "s", "e", "t", "n", "i", "n", "g", ".">>

\* the line '1\t \tx'
l_wssent ==
    <<"1", "\t", " ", "\t", "x">>

\* the line '1\tDette er en setning.\tx'
l_three ==
    <<"1", "\t", "D", "e", "t", "t", "e", " ", "e", "r", " ", "e", "n", " ", "s", "e", "t", "n", "i", "n", "g", ".", "\t", "x">>

\* the line ' 1\t Dette er en setning. \t'
l_padded ==
    <<" ", "1", "\t", " ", "D", "e", "t", "t", "e", " ", "e", "r", " ", "e", "n", " ", "s", "e", "t", "n", "i", "n", "g", ".", " ", "\t">>

----------------------------------------------------------------------------
(* Generated sentences and the pools of inputs.                            *)

\* " a" repeated n times
RECURSIVE ShortWords(_)
ShortWords(n) == IF n = 0 THEN <<>> ELSE <<" ", "a">> \o ShortWords(n - 1)

\* "Aa a a ... a." with n words, each of at most 2 letters
WordsSentence(n) == <<"A", "a">> \o ShortWords(n - 1) \o <<".">>

\* a word of 11 letters
LongWord == <<"b", "b", "b", "b", "b", "b", "b", "b", "b", "b", "b">>

RECURSIVE LongWords(_)
LongWords(n) == IF n = 0 THEN <<>> ELSE <<" ">> \o LongWord \o LongWords(n - 1)

\* "Abbbbbbbbbbb bbbbbbbbbbb ... ." with n words, each of more than 10 letters
LongWordsSentence(n) == <<"A">> \o LongWord \o LongWords(n - 1) \o <<".">>

SampleSentences ==
    {s_ok, s_ok2, s_norsk, s_hallo, s_oslo, s_oslo4, s_paren, s_lower,
     s_nopunct, s_two, s_num, s_special, s_accent, s_many, s_many2, s_ten,
     s_eleven}
        \cup {WordsSentence(n) : n \in 1..MaxWords}
        \cup {LongWordsSentence(n) : n \in 1..(MaxWords \div 2)}

\* the record line "<id>\t<sentence>"
RecordLine(id, sentence) == id \o <<"\t">> \o sentence

MalformedLines ==
    {l_blank, l_space, l_onecol, l_tab, l_emptysent, l_emptyid, l_wssent,
     l_three, l_padded}

\* readlines() keeps the line terminator
WithNewline(line) == Append(line, "\n")

VariedLines ==
    {WithNewline(RecordLine(<<"1">>, s)) : s \in SampleSentences}
        \cup {WithNewline(l) : l \in MalformedLines}

\* two accepted sentences and one rejected by basic_proper_noun_filter
SmallLines ==
    {WithNewline(RecordLine(<<"1">>, s_ok)),
     WithNewline(RecordLine(<<"2">>, s_ok2)),
     WithNewline(RecordLine(<<"3">>, s_oslo4))}

SeqsUpTo(S, n) == UNION {[1..k -> S] : k \in 0..n}

InputFiles == SeqsUpTo(VariedLines, MaxLines) \cup SeqsUpTo(SmallLines, MaxLongLines)

ArgAlphabet == {"A", "a", " ", "\t", ".", "?", "(", "1", "#"}

FilterArgs == SeqsUpTo(ArgAlphabet, MaxArgLen) \cup SampleSentences

----------------------------------------------------------------------------
(* main(): the fast pass.                                                  *)

fast_filters ==
    <<"starts_with_capital", "has_no_parentheses", "ends_with_punctuation",
      "only_one_sentence", "has_no_numbers", "no_special_characters",
      "reading_time_filter", "max_word_count_filter", "basic_proper_noun_filter">>

FilterNames == {fast_filters[k] : k \in 1..Len(fast_filters)}

CounterNames == FilterNames \cup {"proper_noun_filter"}

\* filter_func(sentence) for the filter registered under filter_name
filter_func(filter_name, sentence) ==
    CASE filter_name = "starts_with_capital" -> starts_with_capital(sentence)
      [] filter_name = "has_no_parentheses" -> has_no_parentheses(sentence)
      [] filter_name = "ends_with_punctuation" -> ends_with_punctuation(sentence)
      [] filter_name = "only_one_sentence" -> only_one_sentence(sentence)
      [] filter_name = "has_no_numbers" -> has_no_numbers(sentence)
      [] filter_name = "no_special_characters" -> no_special_characters(sentence)
      [] filter_name = "reading_time_filter" -> reading_time_filter(sentence)
      [] filter_name = "max_word_count_filter" -> max_word_count_filter(sentence)
      [] filter_name = "basic_proper_noun_filter" -> basic_proper_noun_filter(sentence)

\* A variant that loses the increment.
increment_lost(counts, filter_name) == counts

\* filter_fail_count[filter_name] += 1
increment(counts, filter_name) ==
    [counts EXCEPT ![filter_name] = counts[filter_name] + 1]

\* A variant that inserts at the front.
list_prepend(list, x) == <<x>> \o list

\* list.append(x)
list_append(list, x) == Append(list, x)

\* The loop over fast_filters from its k-th element on: the first filter
\* that rejects the sentence is charged and ends the loop.
RECURSIVE FastFilterLoop(_, _, _)
FastFilterLoop(sentence, k, counts) ==
    IF k > Len(fast_filters)
    THEN [counts |-> counts, passed_all_fast |-> TRUE]
    ELSE IF ~ filter_func(fast_filters[k], sentence)
         THEN [counts |-> increment(counts, fast_filters[k]), passed_all_fast |-> FALSE]
         ELSE FastFilterLoop(sentence, k + 1, counts)

\* A variant of the loop without the break: every rejecting filter is charged.
RECURSIVE NoBreakLoop(_, _, _, _)
NoBreakLoop(sentence, k, counts, passed) ==
    IF k > Len(fast_filters)
    THEN [counts |-> counts, passed_all_fast |-> passed]
    ELSE IF ~ filter_func(fast_filters[k], sentence)
         THEN NoBreakLoop(sentence, k + 1,
                          [counts EXCEPT ![fast_filters[k]] = counts[fast_filters[k]] + 1],
                          FALSE)
         ELSE NoBreakLoop(sentence, k + 1, counts, passed)

run_fast_filters_no_break(sentence, counts) == NoBreakLoop(sentence, 1, counts, TRUE)

\* A variant that never clears passed_all_fast.
run_fast_filters_flag_kept(sentence, counts) ==
    [counts |-> FastFilterLoop(sentence, 1, counts).counts, passed_all_fast |-> TRUE]

run_fast_filters(sentence, counts) == FastFilterLoop(sentence, 1, counts)

\* What the first loop does with one line before filtering: the line is
\* stripped, a blank line or one with fewer than two parts is skipped,
\* the sentence is the stripped second part.
parse_line(raw) ==
    LET line == strip(raw)
        parts == split_sep(line, "\t")
    IN  IF line = <<>> THEN [counted |-> FALSE, sentence |-> <<>>]
        ELSE IF Len(parts) < 2 THEN [counted |-> FALSE, sentence |-> <<>>]
        ELSE [counted |-> TRUE, sentence |-> strip(parts[2])]

FastStep ==
    /\ pc = "fast"
    /\ line_idx < Len(lines)
    /\ LET rec == parse_line(lines[line_idx + 1])
           res == run_fast_filters(rec.sentence, filter_fail_count)
       IN  IF rec.counted
           THEN /\ total_lines' = total_lines + 1
                /\ filter_fail_count' = res.counts
                /\ survivors' = IF res.passed_all_fast
                                THEN list_append(survivors, rec.sentence)
                                ELSE survivors
           ELSE UNCHANGED <<total_lines, filter_fail_count, survivors>>
    /\ line_idx' = line_idx + 1
    /\ UNCHANGED <<lines, chunk_size, single_sentences, pc, surv_idx, final_pass,
                   nlp_calls, total_final, chunk_count, i, files, printed>>
    /\ UNCHANGED harnessVars

FastDone ==
    /\ pc = "fast"
    /\ line_idx = Len(lines)
    /\ pc' = "slow"
    /\ final_pass' = <<>>
    /\ UNCHANGED <<lines, chunk_size, single_sentences, line_idx, filter_fail_count,
                   survivors, total_lines, surv_idx, nlp_calls, total_final,
                   chunk_count, i, files, printed>>
    /\ UNCHANGED harnessVars

----------------------------------------------------------------------------
(* main(): the spaCy pass.  The tagger is outside the program: whether it  *)
(* finds a PROPN token in a sentence is any of the two answers.            *)

\* proper_noun_filter(sentence), given whether nlp(sentence) holds a PROPN token
proper_noun_filter(has_propn) == ~ has_propn

SlowStep ==
    /\ pc = "slow"
    /\ surv_idx < Len(survivors)
    /\ \E has_propn \in BOOLEAN :
          LET sentence == survivors[surv_idx + 1]
          IN  /\ nlp_calls' = Append(nlp_calls, [sentence |-> sentence, propn |-> has_propn])
              /\ IF proper_noun_filter(has_propn)
                 THEN /\ final_pass' = list_append(final_pass, sentence)
                      /\ UNCHANGED filter_fail_count
                 ELSE /\ filter_fail_count' = increment(filter_fail_count, "proper_noun_filter")
                      /\ UNCHANGED final_pass
    /\ surv_idx' = surv_idx + 1
    /\ UNCHANGED <<lines, chunk_size, single_sentences, pc, line_idx, survivors,
                   total_lines, total_final, chunk_count, i, files, printed>>
    /\ UNCHANGED harnessVars

SlowDone ==
    /\ pc = "slow"
    /\ surv_idx = Len(survivors)
    /\ pc' = "write"
    /\ total_final' = Len(final_pass)
    /\ chunk_count' = 0
    /\ i' = 0
    /\ UNCHANGED <<lines, chunk_size, single_sentences, line_idx, filter_fail_count,
                   survivors, total_lines, surv_idx, final_pass, nlp_calls, files,
                   printed>>
    /\ UNCHANGED harnessVars

----------------------------------------------------------------------------
(* main(): the chunk writer and the report.                                *)

\* "https://www.nb.no/sprakbanken/ressurskatalog/oai-nb-no-sbr-80/"
source ==
    <<"h", "t", "t", "p", "s", ":", "/", "/", "w", "w", "w", ".", "n", "b",
      ".", "n", "o", "/", "s", "p", "r", "a", "k", "b", "a", "n", "k", "e",
      "n", "/", "r", "e", "s", "s", "u", "r", "s", "k", "a", "t", "a", "l",
      "o", "g", "/", "o", "a", "i", "-", "n", "b", "-", "n", "o", "-", "s",
      "b", "r", "-", "8", "0", "/">>

\* "This is a CC0 licensed corpus cleared from newspaper text. The source
\* sentences from a translation corpus is used.  It is released by
\* Spr<U+00E5>kbanken."
additional_rationale ==
    <<"T", "h", "i", "s", " ", "i", "s", " ", "a", " ", "C", "C", "0", " ",
      "l", "i", "c", "e", "n", "s", "e", "d", " ", "c", "o", "r", "p", "u",
      "s", " ", "c", "l", "e", "a", "r", "e", "d", " ", "f", "r", "o", "m",
      " ", "n", "e", "w", "s", "p", "a", "p", "e", "r", " ", "t", "e", "x",
      "t", ".", " ", "T", "h", "e", " ", "s", "o", "u", "r", "c", "e", " ",
      "s", "e", "n", "t", "e", "n", "c", "e", "s", " ", "f", "r", "o", "m",
      " ", "a", " ", "t", "r", "a", "n", "s", "l", "a", "t", "i", "o", "n",
      " ", "c", "o", "r", "p", "u", "s", " ", "i", "s", " ", "u", "s", "e",
      "d", ".", " ", " ", "I", "t", " ", "i", "s", " ", "r", "e", "l", "e",
      "a", "s", "e", "d", " ", "b", "y", " ", "S", "p", "r", "U+00E5", "k",
      "b", "a", "n", "k", "e", "n", ".">>

\* "General"
domain ==
    <<"G", "e", "n", "e", "r", "a", "l">>

\* The tab-separated fields of the line written for a sentence, each a str.
output_row(sentence, single) ==
    IF single THEN <<sentence>>
    ELSE <<sentence, source, additional_rationale, <<>>, domain>>

\* A variant whose slice stops one element early.
chunk_of_short(list, start, size) == slice(list, start, start + size - 1)

\* chunk = final_pass[i : i + CHUNK_SIZE]
chunk_of(list, start, size) == slice(list, start, start + size)

WriteChunk ==
    /\ pc = "write"
    /\ i < total_final
    /\ chunk_count' = chunk_count + 1
    /\ LET chunk == chunk_of(final_pass, i, chunk_size)
           rows == [k \in 1..Len(chunk) |-> output_row(chunk[k], single_sentences)]
       IN  files' = [n \in (DOMAIN files) \cup {chunk_count + 1} |->
                        IF n = chunk_count + 1 THEN rows ELSE files[n]]
    /\ i' = i + chunk_size
    /\ UNCHANGED <<lines, chunk_size, single_sentences, pc, line_idx, filter_fail_count,
                   survivors, total_lines, surv_idx, final_pass, nlp_calls,
                   total_final, printed>>
    /\ UNCHANGED harnessVars

Report ==
    /\ pc = "write"
    /\ i >= total_final
    /\ printed' = <<[total_lines |-> total_lines, filter_fail_count |-> filter_fail_count,
                     total_final |-> total_final, chunk_count |-> chunk_count]>>
    /\ pc' = "done"
    /\ UNCHANGED <<lines, chunk_size, single_sentences, line_idx, filter_fail_count,
                   survivors, total_lines, surv_idx, final_pass, nlp_calls,
                   total_final, chunk_count, i, files>>
    /\ UNCHANGED harnessVars

----------------------------------------------------------------------------
(* The program.                                                            *)

\* The state of main() once the arguments are parsed and the file is read.
MainStart ==
    /\ pc = "fast"
    /\ line_idx = 0
    /\ filter_fail_count = [n \in CounterNames |-> 0]
    /\ survivors = <<>>
    /\ total_lines = 0
    /\ surv_idx = 0
    /\ final_pass = <<>>
    /\ nlp_calls = <<>>
    /\ total_final = 0
    /\ chunk_count = 0
    /\ i = 0
    /\ files = <<>>
    /\ printed = <<>>

NoCall ==
    /\ fname = "none"
    /\ farg = <<>>
    /\ fres = "none"

Init ==
    /\ lines \in InputFiles
    /\ chunk_size \in 1..MaxChunk
    /\ single_sentences \in BOOLEAN
    /\ MainStart
    /\ NoCall

Next ==
    \/ FastStep
    \/ FastDone
    \/ SlowStep
    \/ SlowDone
    \/ WriteChunk
    \/ Report

Spec == Init /\ [][Next]_vars

----------------------------------------------------------------------------
(* A filter called on its own.                                             *)

\* Whether the call raises: the only unguarded index is word[0] in
\* basic_proper_noun_filter, out of range for an empty word.
filter_raises(filter_name, sentence) ==
    IF filter_name = "basic_proper_noun_filter"
    THEN LET words == split(sentence)
         IN  Len(words) > 1 /\ \E k \in 2..Len(words) : Len(words[k]) = 0
    ELSE FALSE

filter_outcome(filter_name, sentence) ==
    IF filter_raises(filter_name, sentence) THEN "error"
    ELSE IF filter_func(filter_name, sentence) THEN "accept"
    ELSE "reject"

CallFilter ==
    /\ fname = "none"
    /\ \E n \in FilterNames :
          /\ fname' = n
          /\ fres' = filter_outcome(n, farg)
    /\ UNCHANGED farg
    /\ UNCHANGED mainVars

FilterInit ==
    /\ lines = <<>>
    /\ chunk_size = 1
    /\ single_sentences = FALSE
    /\ MainStart
    /\ fname = "none"
    /\ farg \in FilterArgs
    /\ fres = "none"

FilterNext == CallFilter

FilterSpec == FilterInit /\ [][FilterNext]_vars

----------------------------------------------------------------------------
(* Notions the properties are stated with.                                 *)

\* the least element of a non-empty set of numbers
Min(S) == CHOOSE k \in S : \A j \in S : k <= j

\* the indices of the fast filters that reject the sentence
FailingFilters(sentence) ==
    {k \in 1..Len(fast_filters) : ~ filter_func(fast_filters[k], sentence)}

PassesAllFast(sentence) == FailingFilters(sentence) = {}

\* the first k elements of fast_filters, summed over their counters
RECURSIVE FastRejections(_)
FastRejections(k) ==
    IF k = 0 THEN 0 ELSE filter_fail_count[fast_filters[k]] + FastRejections(k - 1)

\* the sentences of the counted records among the first n lines, in order
RECURSIVE RecordSentences(_)
RecordSentences(n) ==
    IF n = 0 THEN <<>>
    ELSE LET rec == parse_line(lines[n])
         IN  IF rec.counted THEN Append(RecordSentences(n - 1), rec.sentence)
             ELSE RecordSentences(n - 1)

InputSentences == RecordSentences(Len(lines))

\* whether a can be obtained from b by deleting elements
RECURSIVE IsSubsequence(_, _)
IsSubsequence(a, b) ==
    IF a = <<>> THEN TRUE
    ELSE IF b = <<>> THEN FALSE
    ELSE IF Head(a) = Head(b) THEN IsSubsequence(Tail(a), Tail(b))
    ELSE IsSubsequence(a, Tail(b))

\* the sentence fields of output_1 .. output_k, concatenated
RECURSIVE WrittenSentences(_)
WrittenSentences(k) ==
    IF k = 0 THEN <<>>
    ELSE WrittenSentences(k - 1) \o [r \in 1..Len(files[k]) |-> files[k][r][1]]

CeilDiv(a, b) == (a + b - 1) \div b

\* whether the text of a line (its terminator aside) has a tab, that is,
\* at least two tab-delimited columns
HasTwoColumns(raw) == \E k \in 1..(Len(raw) - 1) : raw[k] = "\t"

\* empty or whitespace only
IsBlank(s) == \A k \in 1..Len(s) : isspace(s[k])

OnlyCounter(name) ==
    /\ filter_fail_count[name] = 1
    /\ \A n \in CounterNames \ {name} : filter_fail_count[n] = 0

ScenarioA == <<WithNewline(RecordLine(<<"1">>, s_hallo))>>

ScenarioB == <<WithNewline(RecordLine(<<"1">>, s_oslo))>>

----------------------------------------------------------------------------
(* Properties.                                                             *)

\* C1: a step of the fast pass on a counted record whose sentence fails at
\* least one fast filter adds exactly 1 to the counter of the earliest
\* failing filter in the fixed order and leaves every other counter as it was.
C1_ShortCircuit ==
    [][(/\ pc = "fast"
        /\ line_idx < Len(lines)
        /\ line_idx' = line_idx + 1
        /\ parse_line(lines[line_idx + 1]).counted
        /\ ~ PassesAllFast(parse_line(lines[line_idx + 1]).sentence))
       => LET first == fast_filters[Min(FailingFilters(parse_line(lines[line_idx + 1]).sentence))]
          IN  /\ filter_fail_count'[first] = filter_fail_count[first] + 1
              /\ \A n \in CounterNames \ {first} :
                    filter_fail_count'[n] = filter_fail_count[n]]_vars

\* A record failing two or more fast filters has been processed and its
\* earliest failing filter charged.
C1_Witness ==
    /\ pc = "fast"
    /\ line_idx = 1
    /\ parse_line(lines[1]).counted
    /\ Cardinality(FailingFilters(parse_line(lines[1]).sentence)) >= 2
    /\ OnlyCounter(fast_filters[Min(FailingFilters(parse_line(lines[1]).sentence))])

\* C2 as stated: the run on the single record "1<TAB>Hallo der.", with a
\* tagger that reports no proper noun, ends with the sentence passing the
\* fast filters, every counter 0, total_final 1 and the sentence as the
\* only line of chunk 1.
C2_ScenarioA_Stated ==
    (pc = "done" /\ lines = ScenarioA /\ \A k \in 1..Len(nlp_calls) : ~ nlp_calls[k].propn)
        => /\ survivors = <<s_hallo>>
           /\ \A n \in CounterNames : filter_fail_count[n] = 0
           /\ total_final = 1
           /\ DOMAIN files = {1}
           /\ Len(files[1]) = 1
           /\ files[1][1][1] = s_hallo

\* C2 as amended: the run on the single record "1<TAB>Hallo der." counts the
\* record; the sentence passes the first six fast filters and is rejected by
\* reading_time_filter (2 words, 1.2 seconds); that counter is 1 and every
\* other one 0, the tagger is never called, total_final is 0 and no chunk
\* is written.
C2_ScenarioA_Amended ==
    (pc = "done" /\ lines = ScenarioA)
        => /\ total_lines = 1
           /\ \A k \in 1..6 : filter_func(fast_filters[k], s_hallo)
           /\ OnlyCounter("reading_time_filter")
           /\ survivors = <<>>
           /\ nlp_calls = <<>>
           /\ total_final = 0
           /\ chunk_count = 0
           /\ files = <<>>

\* The run on scenario A has ended.
C2_Witness ==
    pc = "done" /\ lines = ScenarioA /\ total_lines = 1 /\ printed # <<>>

\* C3 as stated: the run on a record whose sentence is "Dette er Oslo." ends
\* with the counter of basic_proper_noun_filter at 1, every other counter
\* at 0 and no tagger call.
C3_ScenarioB_Stated ==
    (pc = "done" /\ lines = ScenarioB)
        => /\ OnlyCounter("basic_proper_noun_filter")
           /\ nlp_calls = <<>>

\* C3 as amended: the run on a record whose sentence is "Dette er Oslo."
\* rejects it in the fast pass at reading_time_filter (3 words, 1.8 seconds),
\* before basic_proper_noun_filter, which would reject it too, is reached:
\* the counter of reading_time_filter is 1, every other counter is 0 and the
\* tagger is never called.
C3_ScenarioB_Amended ==
    (pc = "done" /\ lines = ScenarioB)
        => /\ OnlyCounter("reading_time_filter")
           /\ ~ basic_proper_noun_filter(s_oslo)
           /\ survivors = <<>>
           /\ nlp_calls = <<>>

\* The run on scenario B has ended.
C3_Witness ==
    pc = "done" /\ lines = ScenarioB /\ total_lines = 1 /\ total_final = 0

\* C4: when the run has ended the files are output_1 .. output_k with
\* k = ceil(total_final / chunk_size), every file but the last holds
\* chunk_size rows, the last holds between 1 and chunk_size, and the sentence
\* fields of the files in index order are the final accepted sequence.
C4_Chunking ==
    pc = "done"
        => LET k == CeilDiv(total_final, chunk_size)
           IN  /\ chunk_count = k
               /\ DOMAIN files = 1..k
               /\ \A n \in 1..(k - 1) : Len(files[n]) = chunk_size
               /\ k > 0 => Len(files[k]) \in 1..chunk_size
               /\ WrittenSentences(k) = final_pass

\* Five final survivors written with chunk_size 2: files of 2, 2 and 1 rows.
C4_Witness ==
    /\ pc = "done"
    /\ chunk_size = 2
    /\ total_final = 5
    /\ DOMAIN files = 1..3
    /\ Len(files[1]) = 2 /\ Len(files[2]) = 2 /\ Len(files[3]) = 1

\* C5: a step of the fast pass counts the line, adding 1 to total_lines, if
\* the line has at least two tab-delimited columns, whatever they hold, and
\* otherwise changes neither total_lines nor a counter nor the survivors.
C5_CountsTwoColumnLines ==
    [][(pc = "fast" /\ line_idx < Len(lines) /\ line_idx' = line_idx + 1)
       => IF HasTwoColumns(lines[line_idx + 1])
          THEN total_lines' = total_lines + 1
          ELSE UNCHANGED <<total_lines, filter_fail_count, survivors>>]_vars

\* C6 as stated: a fast filter called on its own with an empty or
\* whitespace-only sentence returns reject.
C6_BlankRejected_Stated ==
    (fname # "none" /\ IsBlank(farg)) => fres = "reject"

\* C6 as amended: a fast filter called on its own with an empty or
\* whitespace-only sentence never raises; starts_with_capital,
\* ends_with_punctuation, only_one_sentence and reading_time_filter return
\* reject, and has_no_parentheses, has_no_numbers, no_special_characters,
\* max_word_count_filter and basic_proper_noun_filter return accept.
C6_BlankOutcome_Amended ==
    (fname # "none" /\ IsBlank(farg))
        => /\ fres # "error"
           /\ fname \in {"starts_with_capital", "ends_with_punctuation",
                         "only_one_sentence", "reading_time_filter"}
                 => fres = "reject"
           /\ fname \in {"has_no_parentheses", "has_no_numbers", "no_special_characters",
                         "max_word_count_filter", "basic_proper_noun_filter"}
                 => fres = "accept"

\* starts_with_capital has been called on a whitespace-only sentence.
C6_Witness ==
    /\ fname = "starts_with_capital"
    /\ farg # <<>>
    /\ IsBlank(farg)
    /\ fres = "reject"

\* C7: the survivors, the final accepted sequence and the sentences written
\* so far are each a subsequence of the sentences of the input records in
\* their order.
C7_OrderPreserved ==
    LET input == InputSentences
    IN  /\ IsSubsequence(survivors, input)
        /\ IsSubsequence(final_pass, survivors)
        /\ IsSubsequence(final_pass, input)
        /\ IsSubsequence(WrittenSentences(chunk_count), input)

\* A run that dropped a record and accepted two different sentences has ended.
C7_Witness ==
    /\ pc = "done"
    /\ Len(final_pass) >= 2
    /\ \E k \in 1..(Len(final_pass) - 1) : final_pass[k] # final_pass[k + 1]
    /\ Len(final_pass) < total_lines

\* C8: the tagger is not called during the fast pass; its calls are, in
\* order and once each, on the survivors consumed so far, all of them once
\* the second pass is over; the sentence of its latest call passes all nine
\* fast filters; and when the second pass starts the survivors are exactly
\* the sentences of the counted records that pass all nine, so a rejected
\* sentence is never tagged.
C8_TaggerOnlyOnSurvivors ==
    /\ pc = "fast" => nlp_calls = <<>>
    /\ Len(nlp_calls) = surv_idx
    /\ surv_idx <= Len(survivors)
    /\ \A k \in 1..Len(nlp_calls) : nlp_calls[k].sentence = survivors[k]
    /\ (pc = "slow" /\ surv_idx > 0) => PassesAllFast(nlp_calls[surv_idx].sentence)
    /\ pc \in {"write", "done"} => Len(nlp_calls) = Len(survivors)
    /\ (pc = "slow" /\ surv_idx = 0)
          => survivors = SelectSeq(InputSentences, PassesAllFast)

\* A run in which the tagger was called and a fast filter rejected a record
\* has ended.
C8_Witness ==
    /\ pc = "done"
    /\ Len(nlp_calls) >= 2
    /\ FastRejections(Len(fast_filters)) >= 1

\* C9: at every point total_lines is the sum of the nine fast counters plus
\* the number of survivors, and once the second pass is over it is the sum
\* of all ten counters plus the number of accepted sentences, which is
\* total_final.
C9_Accounting ==
    /\ total_lines = FastRejections(Len(fast_filters)) + Len(survivors)
    /\ pc \in {"write", "done"}
          => /\ total_final = Len(final_pass)
             /\ total_lines = FastRejections(Len(fast_filters))
                                + filter_fail_count["proper_noun_filter"] + total_final

\* A run with a fast rejection, a tagger rejection and an accepted sentence
\* has ended.
C9_Witness ==
    /\ pc = "done"
    /\ FastRejections(Len(fast_filters)) >= 1
    /\ filter_fail_count["proper_noun_filter"] >= 1
    /\ total_final >= 1

\* C10: the counter of max_word_count_filter stays 0: the sentence of the
\* record the fast pass has just processed, if reading_time_filter accepts
\* it, has an effective word count of 4 to 11 and no more whitespace tokens
\* than that, so max_word_count_filter accepts it.
C10_MaxWordCountNeverRejects ==
    /\ filter_fail_count["max_word_count_filter"] = 0
    /\ (pc = "fast" /\ line_idx > 0)
          => LET rec == parse_line(lines[line_idx])
             IN  (rec.counted /\ reading_time_filter(rec.sentence))
                    => /\ effective_word_count(rec.sentence) \in 4..11
                       /\ Len(split(rec.sentence)) <= effective_word_count(rec.sentence)
                       /\ max_word_count_filter(rec.sentence)

\* A sentence of more than 14 words that passes the first six filters has
\* been rejected by reading_time_filter.
C10_Witness ==
    /\ pc = "done"
    /\ Len(InputSentences) = 1
    /\ Len(split(InputSentences[1])) > DefaultMaxWords
    /\ FailingFilters(InputSentences[1]) = {7, 8}
    /\ OnlyCounter("reading_time_filter")

=============================================================================
